---- MODULE Spec2Model ----
(***************************************************************************)
(* The pinch/pan gesture recognizer of                                     *)
(* src/lib/gestures/pinch-pan-gesture.ts (attachPinchPanGesture), as a     *)
(* state machine: one attachment, its closure variables, the four pointer  *)
(* listeners and the teardown it returns.                                  *)
(*                                                                         *)
(* Numbers.  Client coordinates are even integers, so that the midpoint    *)
(* (a + b) / 2 of two contacts is an integer.  The other real-valued       *)
(* quantities are carried exactly, in a form that is one-to-one with the   *)
(* real number the code computes:                                          *)
(*   - a distance d = Math.hypot(dx, dy) is carried as d^2 = dx^2 + dy^2;  *)
(*   - a scale d / d0 is carried as the fraction d^2 / d0^2 in lowest      *)
(*     terms, <<num, den>>; the scale 1 is <<1, 1>>, the scale 2 <<4, 1>>; *)
(*   - an angle Math.atan2(dy, dx) is carried as the primitive direction   *)
(*     <<dx, dy>> / gcd of the ray it is the bearing of (atan2(0, 0) = 0   *)
(*     is the bearing of <<1, 0>>);                                        *)
(*   - a rotation "angle - anchor angle" is carried as the pair            *)
(*     <<direction, anchor direction>>, and as ZeroRad when the two are    *)
(*     equal (x - x = 0).                                                  *)
(* The timestamp of a snapshot (performance.now()) is left out, and so is   *)
(* the touch-action style attach sets on the target.  All four handlers    *)
(* are supplied: calls lists the handler calls a notification makes, each   *)
(* with the snapshot passed and with whether the emission had to capture a *)
(* pinch anchor, or a center, that was still unset.                        *)
(***************************************************************************)
EXTENDS Integers, Sequences, FiniteSets, TLC

\* ---------------------------------------------------------------- bounds
\* Under Spec the contacts lie on the x axis, at x = 0, 2, .., 2*MaxX, or at
\* the point (0, 2) above the origin: collinear and coincident contacts, quarter
\* turns, and bearings on both sides of the +-pi cut.
MaxX == 2
\* Under SpecCrowd they lie on the x axis, at x = 0, 2, .., 2*MaxLineX.
MaxLineX == 1
\* The teardown is called at most this many times in a behaviour.
MaxDetachCalls == 2
\* Under SpecTwin at most this many notifications go to one of the two
\* attachments alone.
MaxAlone == 1
\* The effect of the PhaserGame component runs at most this many times.
MaxRuns == 3

Grid == {[x |-> 2 * i, y |-> 0] : i \in 0..MaxX} \cup {[x |-> 0, y |-> 2]}
Line == {[x |-> 2 * i, y |-> 0] : i \in 0..MaxLineX}

\* Pointer ids of the notifications the target receives.
AllIds == {1, 2, 3}
\* The ids that begin a contact with a tracked modality under Spec: at most two
\* contacts are live at a time.
PairIds == {1, 2}

\* e.pointerType; "other" stands for any value that is not on the allow-list.
PointerTypes == {"touch", "pen", "mouse", "other"}

VARIABLES
    listeners,             \* the event types the target has a listener of this attachment for
    preventDefault,        \* options.preventDefault
    capturePointers,       \* options.capturePointers
    pointers,              \* the Map pointerId -> point, in insertion order
    active,
    gestureStartCenter,
    gestureStartDistance,
    gestureStartAngleRad,
    lastCenter,
    translation,
    ev,                    \* the last notification delivered to the target (or teardown call)
    calls,                 \* the handler calls made while it was processed, in order
    prevCenter,            \* the center of the snapshot emitted last in the session, if any
    epochDelta,            \* the sum of the deltas of the snapshots emitted since the last start one
    detachCalls,           \* how many times the teardown has been called
    other,                 \* a second attachment, made by another call of attachPinchPanGesture
    hook,                  \* the component that attached through usePinchPanGesture, if one did
    phaserGame             \* the PhaserGame component, if one is rendered

vars == <<listeners, preventDefault, capturePointers, pointers, active,
          gestureStartCenter, gestureStartDistance, gestureStartAngleRad,
          lastCenter, translation, ev, calls, prevCenter, epochDelta,
          detachCalls, other, hook, phaserGame>>

\* A nullable value: Null, or Some(v).
Null == <<>>
Some(v) == <<v>>

Pt(x, y) == [x |-> x, y |-> y]
Origin == Pt(0, 0)

Abs(n) == IF n < 0 THEN -n ELSE n

RECURSIVE Gcd(_, _)
Gcd(a, b) == IF b = 0 THEN a ELSE Gcd(b, a % b)

\* Math.hypot(dx, dy), carried as its square.
Hypot(dx, dy) == dx * dx + dy * dy

\* Math.atan2(dy, dx), carried as the primitive direction of the ray.
Atan2(dy, dx) ==
    IF dx = 0 /\ dy = 0 THEN <<1, 0>>
    ELSE LET g == Gcd(Abs(dx), Abs(dy)) IN <<dx \div g, dy \div g>>

\* The quotient d / d0 of two distances (d0 > 0), carried as d^2 / d0^2 in lowest terms.
Quotient(d, d0) == LET g == Gcd(d, d0) IN <<d \div g, d0 \div g>>
One == <<1, 1>>

\* The difference a - a0 of two angles.
ZeroRad == <<<<1, 0>>, <<1, 0>>>>
AngleMinus(a, a0) == IF a = a0 THEN ZeroRad ELSE <<a, a0>>

Cross(a, b) == a[1] * b[2] - a[2] * b[1]
Dot(a, b) == a[1] * b[1] + a[2] * b[2]
\* The bearing of the direction d, an angle of (-pi, pi], is in (0, pi].
InUpperHalf(d) == d[2] > 0 \/ (d[2] = 0 /\ d[1] < 0)
\* The difference rot = <<a, a0>> of two bearings is outside (-pi, pi]: it is
\* more than pi, or it is -pi or less.
BeyondHalfTurn(rot) ==
    LET a == rot[1]
        a0 == rot[2]
    IN \/ InUpperHalf(a) /\ a0[2] < 0 /\ Cross(a0, a) < 0
       \/ InUpperHalf(a0) /\ ~InUpperHalf(a) /\ Cross(a, a0) <= 0
\* The difference rot = <<a, a0>> of two bearings is pi / 2.
IsQuarterTurn(rot) ==
    /\ Dot(rot[1], rot[2]) = 0
    /\ Cross(rot[2], rot[1]) > 0
    /\ ~BeyondHalfTurn(rot)

\* clampPointersCount without the upper clamp.
clampPointersCountUnclamped(count) ==
    IF count <= 0 THEN 0 ELSE count

clampPointersCount(count) ==
    IF count <= 0 THEN 0 ELSE IF count = 1 THEN 1 ELSE 2

computeMetrics(points) ==
    IF Len(points) = 0
    THEN [center |-> Origin, distance |-> Null, angleRad |-> Null]
    ELSE IF Len(points) = 1
    THEN [center |-> Pt(points[1].x, points[1].y), distance |-> Null, angleRad |-> Null]
    ELSE LET a == points[1]
             b == points[2]
             cx == (a.x + b.x) \div 2
             cy == (a.y + b.y) \div 2
             dx == b.x - a.x
             dy == b.y - a.y
         IN [center |-> Pt(cx, cy),
             distance |-> Some(Hypot(dx, dy)),
             angleRad |-> Some(Atan2(dy, dx))]

\* ------------------------------------------------------ the closure's state
\* The closure variables of one attachment as a record, threaded through the
\* statements of a handler; calls collects the handler calls the handler makes.
Closure ==
    [pointers |-> pointers, active |-> active,
     gestureStartCenter |-> gestureStartCenter,
     gestureStartDistance |-> gestureStartDistance,
     gestureStartAngleRad |-> gestureStartAngleRad,
     lastCenter |-> lastCenter, translation |-> translation,
     calls |-> <<>>]

HandlerOf(phase) ==
    CASE phase = "start" -> "onStart"
      [] phase = "move" -> "onMove"
      [] phase = "end" -> "onEnd"
      [] phase = "cancel" -> "onCancel"

\* The anchors emit captures when they are still unset (lines 125-126, 136-141).
lazyCenter(current, center) == IF current = Null THEN Some(center) ELSE current
\* lazyAnchor taking the measure of every emission with a pinch, set or not.
lazyAnchorOverwrites(hasPinch, current, measured) ==
    IF hasPinch THEN measured ELSE current

lazyAnchor(hasPinch, current, measured) ==
    IF hasPinch /\ current = Null THEN measured ELSE current

\* scaleOf with the quotient upside down.
scaleOfInverted(hasPinch, distance, startDistance) ==
    IF hasPinch /\ startDistance # Null /\ startDistance[1] > 0
    THEN Quotient(startDistance[1], distance[1])
    ELSE One

\* scaleOf falling back to 0, not 1, when there is no pinch to measure.
scaleOfZeroDefault(hasPinch, distance, startDistance) ==
    IF hasPinch /\ startDistance # Null /\ startDistance[1] > 0
    THEN Quotient(distance[1], startDistance[1])
    ELSE <<0, 1>>

scaleOf(hasPinch, distance, startDistance) ==
    IF hasPinch /\ startDistance # Null /\ startDistance[1] > 0
    THEN Quotient(distance[1], startDistance[1])
    ELSE One

\* rotationOf brought back into (-pi, pi] by a full turn (marked "turn") when the
\* difference is outside.
rotationOfNormalized(hasPinch, angleRad, startAngleRad) ==
    IF hasPinch /\ startAngleRad # Null /\ angleRad # Null
    THEN LET raw == AngleMinus(angleRad[1], startAngleRad[1])
         IN IF BeyondHalfTurn(raw) THEN <<raw[1], raw[2], "turn">> ELSE raw
    ELSE ZeroRad

rotationOf(hasPinch, angleRad, startAngleRad) ==
    IF hasPinch /\ startAngleRad # Null /\ angleRad # Null
    THEN AngleMinus(angleRad[1], startAngleRad[1])
    ELSE ZeroRad

\* Whether this emission takes one of the branches that set an unset
\* lastCenter or anchor center (lines 125-126).
capturesCenter(s) == s.lastCenter = Null \/ s.gestureStartCenter = Null

\* Whether this emission takes one of the branches that set an unset pinch
\* anchor (lines 136-141).
capturesPinchAnchor(s, metrics) ==
    /\ metrics.distance # Null
    /\ (s.gestureStartDistance = Null \/ s.gestureStartAngleRad = Null)

\* The snapshot emit builds, with the closure as emit has updated it so far.
snapshotOf(s, phase, metrics) ==
    LET center == metrics.center
        lc == lazyCenter(s.lastCenter, center)[1]
        gsc == lazyCenter(s.gestureStartCenter, center)[1]
        hasPinch == metrics.distance # Null
        gsd == lazyAnchor(hasPinch, s.gestureStartDistance, metrics.distance)
        gsa == lazyAnchor(hasPinch, s.gestureStartAngleRad, metrics.angleRad)
    IN [phase |-> phase,
        pointers |-> clampPointersCount(Len(s.pointers)),
        center |-> Pt(center.x, center.y),
        delta |-> Pt(center.x - lc.x, center.y - lc.y),
        translation |-> Pt(center.x - gsc.x, center.y - gsc.y),
        pinchDistance |-> metrics.distance,
        scale |-> scaleOf(hasPinch, metrics.distance, gsd),
        rotationRad |-> rotationOf(hasPinch, metrics.angleRad, gsa)]

\* emit without its closing "lastCenter = center".
emitKeepsLastCenter(s, phase, metrics) ==
    LET hasPinch == metrics.distance # Null
        snapshot == snapshotOf(s, phase, metrics)
    IN [s EXCEPT !.gestureStartCenter = lazyCenter(@, metrics.center),
                 !.gestureStartDistance = lazyAnchor(hasPinch, @, metrics.distance),
                 !.gestureStartAngleRad = lazyAnchor(hasPinch, @, metrics.angleRad),
                 !.translation = snapshot.translation,
                 !.lastCenter = lazyCenter(@, metrics.center),
                 !.calls = Append(@, [handler |-> HandlerOf(phase), snapshot |-> snapshot,
                                      lazyCapture |-> capturesPinchAnchor(s, metrics),
                                      lazyCenter |-> capturesCenter(s)])]

emit(s, phase, metrics) ==
    LET hasPinch == metrics.distance # Null
        snapshot == snapshotOf(s, phase, metrics)
    IN [s EXCEPT !.gestureStartCenter = lazyCenter(@, metrics.center),
                 !.gestureStartDistance = lazyAnchor(hasPinch, @, metrics.distance),
                 !.gestureStartAngleRad = lazyAnchor(hasPinch, @, metrics.angleRad),
                 !.translation = snapshot.translation,
                 !.lastCenter = Some(Pt(metrics.center.x, metrics.center.y)),
                 !.calls = Append(@, [handler |-> HandlerOf(phase), snapshot |-> snapshot,
                                      lazyCapture |-> capturesPinchAnchor(s, metrics),
                                      lazyCenter |-> capturesCenter(s)])]

resetGestureState(s) ==
    [s EXCEPT !.gestureStartCenter = Null,
              !.gestureStartDistance = Null,
              !.gestureStartAngleRad = Null,
              !.lastCenter = Null,
              !.translation = Origin]

getActivePoints(s) ==
    [i \in 1..Len(s.pointers) |-> Pt(s.pointers[i].x, s.pointers[i].y)]

\* ------------------------------------------------------------- the Map
Has(ptrs, id) == \E i \in 1..Len(ptrs) : ptrs[i].id = id
IndexOf(ptrs, id) == CHOOSE i \in 1..Len(ptrs) : ptrs[i].id = id
\* Map.set moving an existing key to the end, as a delete followed by a set does.
MapSetMovesLast(ptrs, id, x, y) ==
    Append(SelectSeq(ptrs, LAMBDA entry : entry.id # id), [id |-> id, x |-> x, y |-> y])

\* Map.set: an existing key keeps its place, a new key goes last.
MapSet(ptrs, id, x, y) ==
    IF Has(ptrs, id)
    THEN [ptrs EXCEPT ![IndexOf(ptrs, id)] = [id |-> id, x |-> x, y |-> y]]
    ELSE Append(ptrs, [id |-> id, x |-> x, y |-> y])
\* Map.delete.
MapDelete(ptrs, id) == SelectSeq(ptrs, LAMBDA entry : entry.id # id)

\* ------------------------------------------------------------- handlers
TrackedTypes == {"touch", "pen", "mouse"}

\* The rebase re-anchoring the center only, the pinch anchors left to emit.
rebaseCenterOnly(s, m) ==
    [s EXCEPT !.gestureStartCenter = Some(Pt(m.center.x, m.center.y)),
              !.lastCenter = Some(Pt(m.center.x, m.center.y)),
              !.translation = Origin]

\* The rebase re-anchoring the pinch only, the centers left to emit.
rebasePinchOnly(s, m) ==
    [s EXCEPT !.translation = Origin,
              !.gestureStartDistance = m.distance,
              !.gestureStartAngleRad = m.angleRad]

\* The rebase leaving the anchor center where it was.
rebaseKeepsAnchorCenter(s, m) ==
    [s EXCEPT !.lastCenter = Some(Pt(m.center.x, m.center.y)),
              !.translation = Origin,
              !.gestureStartDistance = m.distance,
              !.gestureStartAngleRad = m.angleRad]

\* The re-anchor of the session to the geometry m (the "rebase").
rebase(s, m) ==
    [s EXCEPT !.gestureStartCenter = Some(Pt(m.center.x, m.center.y)),
              !.lastCenter = Some(Pt(m.center.x, m.center.y)),
              !.translation = Origin,
              !.gestureStartDistance = m.distance,
              !.gestureStartAngleRad = m.angleRad]

\* onPointerDown anchoring only the first contact of a gesture: a second contact
\* starts without a rebase.
onPointerDownAnchorOnce(s, e) ==
    LET s1 == IF e.pointerType \in TrackedTypes
              THEN [s EXCEPT !.pointers = MapSet(@, e.pointerId, e.clientX, e.clientY)]
              ELSE s
        metrics == computeMetrics(getActivePoints(s1))
        s2 == IF ~s1.active THEN resetGestureState([s1 EXCEPT !.active = TRUE]) ELSE s1
    IN IF Len(s2.pointers) = 1
       THEN emit(rebase(s2, metrics), "start", metrics)
       ELSE IF Len(s2.pointers) = 2
       THEN emit(s2, "start", metrics)
       ELSE s2

onPointerDown(s, e) ==
    LET s1 == IF e.pointerType \in TrackedTypes
              THEN [s EXCEPT !.pointers = MapSet(@, e.pointerId, e.clientX, e.clientY)]
              ELSE s
        metrics == computeMetrics(getActivePoints(s1))
        s2 == IF ~s1.active THEN resetGestureState([s1 EXCEPT !.active = TRUE]) ELSE s1
    IN IF Len(s2.pointers) = 1 \/ Len(s2.pointers) = 2
       THEN emit(rebase(s2, metrics), "start", metrics)
       ELSE s2

\* The try around target.setPointerCapture letting the exception through.
capturePassesRethrows(outcome) == outcome # "threw"

\* Whether onPointerDown goes on after target.setPointerCapture has ended with
\* outcome: the catch block is empty, so it does whatever the outcome
\* (lines 193-199).
capturePasses(outcome) == TRUE

\* onPointerDown with the outcome of the pointer capture: were the exception to
\* leave the handler, only the statements before the capture would have run.
onPointerDownCapturing(s, e, outcome) ==
    IF capturePasses(outcome) THEN onPointerDown(s, e)
    ELSE IF e.pointerType \in TrackedTypes
    THEN [s EXCEPT !.pointers = MapSet(@, e.pointerId, e.clientX, e.clientY)]
    ELSE s

\* onPointerMove without the pointers.has guard: an unknown id is stored.
onPointerMoveUpsert(s, e) ==
    LET s1 == [s EXCEPT !.pointers = MapSet(@, e.pointerId, e.clientX, e.clientY)]
        metrics == computeMetrics(getActivePoints(s1))
    IN IF ~s1.active THEN s1
       ELSE IF Len(s1.pointers) = 1 \/ Len(s1.pointers) = 2
       THEN emit(s1, "move", metrics)
       ELSE s1

\* onPointerMove measuring the geometry before it stores the new position.
onPointerMoveStale(s, e) ==
    IF ~Has(s.pointers, e.pointerId) THEN s
    ELSE LET s1 == [s EXCEPT !.pointers = MapSet(@, e.pointerId, e.clientX, e.clientY)]
             metrics == computeMetrics(getActivePoints(s))
         IN IF ~s1.active THEN s1
            ELSE IF Len(s1.pointers) = 1 \/ Len(s1.pointers) = 2
            THEN emit(s1, "move", metrics)
            ELSE s1

\* onPointerMove emitting whatever the number of live contacts.
onPointerMoveAnyCount(s, e) ==
    IF ~Has(s.pointers, e.pointerId) THEN s
    ELSE LET s1 == [s EXCEPT !.pointers = MapSet(@, e.pointerId, e.clientX, e.clientY)]
             metrics == computeMetrics(getActivePoints(s1))
         IN IF ~s1.active THEN s1 ELSE emit(s1, "move", metrics)

onPointerMove(s, e) ==
    IF ~Has(s.pointers, e.pointerId) THEN s
    ELSE LET s1 == [s EXCEPT !.pointers = MapSet(@, e.pointerId, e.clientX, e.clientY)]
             metrics == computeMetrics(getActivePoints(s1))
         IN IF ~s1.active THEN s1
            ELSE IF Len(s1.pointers) = 1 \/ Len(s1.pointers) = 2
            THEN emit(s1, "move", metrics)
            ELSE s1

\* endMetrics taking the position of the event, not the last-emitted center,
\* when no contact remains.
endMetricsFromEvent(s, e) ==
    LET remaining == getActivePoints(s)
    IN IF Len(remaining) > 0
       THEN computeMetrics(remaining)
       ELSE [center |-> Pt(e.clientX, e.clientY), distance |-> Null, angleRad |-> Null]

\* The metrics endLike emits the end/cancel snapshot with (lines 252-260).
endMetrics(s, e) ==
    LET remaining == getActivePoints(s)
    IN IF Len(remaining) > 0
       THEN computeMetrics(remaining)
       ELSE [center |-> IF s.lastCenter # Null
                        THEN Pt(s.lastCenter[1].x, s.lastCenter[1].y)
                        ELSE Pt(e.clientX, e.clientY),
             distance |-> Null, angleRad |-> Null]

\* endLike emitting the synthetic start without re-anchoring the session.
endLikeNoRebase(phase, s, e) ==
    IF ~Has(s.pointers, e.pointerId) THEN s
    ELSE LET s1 == [s EXCEPT !.pointers = MapDelete(@, e.pointerId)]
             s2 == emit(s1, phase, endMetrics(s1, e))
         IN IF Len(s2.pointers) = 1 \/ Len(s2.pointers) = 2
            THEN emit(s2, "start", computeMetrics(getActivePoints(s2)))
            ELSE IF Len(s2.pointers) = 0
            THEN resetGestureState([s2 EXCEPT !.active = FALSE])
            ELSE s2

\* endLike leaving the session in place when the last contact is released.
endLikeNoReset(phase, s, e) ==
    IF ~Has(s.pointers, e.pointerId) THEN s
    ELSE LET s1 == [s EXCEPT !.pointers = MapDelete(@, e.pointerId)]
             s2 == emit(s1, phase, endMetrics(s1, e))
         IN IF Len(s2.pointers) = 1 \/ Len(s2.pointers) = 2
            THEN LET m == computeMetrics(getActivePoints(s2))
                 IN emit(rebase(s2, m), "start", m)
            ELSE s2

\* endLike taking a cancel as the end of the whole gesture: no synthetic start
\* for the contacts that remain.
endLikeCancelEndsGesture(phase, s, e) ==
    IF ~Has(s.pointers, e.pointerId) THEN s
    ELSE LET s1 == [s EXCEPT !.pointers = MapDelete(@, e.pointerId)]
             s2 == emit(s1, phase, endMetrics(s1, e))
         IN IF phase = "end" /\ (Len(s2.pointers) = 1 \/ Len(s2.pointers) = 2)
            THEN LET m == computeMetrics(getActivePoints(s2))
                 IN emit(rebase(s2, m), "start", m)
            ELSE IF Len(s2.pointers) = 0
            THEN resetGestureState([s2 EXCEPT !.active = FALSE])
            ELSE s2

\* endLike re-anchoring and emitting the synthetic start whenever a contact remains.
endLikeRebasesAnyCount(phase, s, e) ==
    IF ~Has(s.pointers, e.pointerId) THEN s
    ELSE LET s1 == [s EXCEPT !.pointers = MapDelete(@, e.pointerId)]
             s2 == emit(s1, phase, endMetrics(s1, e))
         IN IF Len(s2.pointers) >= 1
            THEN LET m == computeMetrics(getActivePoints(s2))
                 IN emit(rebase(s2, m), "start", m)
            ELSE resetGestureState([s2 EXCEPT !.active = FALSE])

endLike(phase, s, e) ==
    IF ~Has(s.pointers, e.pointerId) THEN s
    ELSE LET s1 == [s EXCEPT !.pointers = MapDelete(@, e.pointerId)]
             s2 == emit(s1, phase, endMetrics(s1, e))
         IN IF Len(s2.pointers) = 1 \/ Len(s2.pointers) = 2
            THEN LET m == computeMetrics(getActivePoints(s2))
                 IN emit(rebase(s2, m), "start", m)
            ELSE IF Len(s2.pointers) = 0
            THEN resetGestureState([s2 EXCEPT !.active = FALSE])
            ELSE s2

onPointerUp(s, e) == endLike("end", s, e)
onPointerCancel(s, e) == endLike("cancel", s, e)

\* Every listener calling e.preventDefault() first, before it looks the contact up.
callsPreventDefaultFirst(s, e) == preventDefault

\* Whether the listener of e.type calls e.preventDefault().
callsPreventDefault(s, e) ==
    IF e.type = "pointerdown" THEN preventDefault
    ELSE Has(s.pointers, e.pointerId) /\ preventDefault

\* The teardown ending the gesture in progress with a cancel snapshot.
detachCancelsGesture(s) ==
    IF s.pointers = <<>> \/ s.lastCenter = Null
    THEN resetGestureState([s EXCEPT !.pointers = <<>>, !.active = FALSE])
    ELSE resetGestureState(
             [emit([s EXCEPT !.pointers = <<>>], "cancel",
                   [center |-> s.lastCenter[1], distance |-> Null, angleRad |-> Null])
                 EXCEPT !.active = FALSE])

\* The teardown without pointers.clear().
detachKeepsPointers(s) ==
    resetGestureState([s EXCEPT !.active = FALSE])

\* The closure as the teardown attachPinchPanGesture returns leaves it.
detach(s) ==
    resetGestureState([s EXCEPT !.pointers = <<>>, !.active = FALSE])

EventTypes == {"pointerdown", "pointermove", "pointerup", "pointercancel"}
\* The teardown leaving the pointerdown listener registered.
removeListenersKeepsDown(ls) == ls \ {"pointermove", "pointerup", "pointercancel"}

\* target.removeEventListener, four times.
removeListeners(ls) == ls \ EventTypes

\* ------------------------------------------------------------- the machine
\* The closure variables as attachPinchPanGesture declares them (lines 111-119).
FreshClosure ==
    [pointers |-> <<>>, active |-> FALSE,
     gestureStartCenter |-> Null, gestureStartDistance |-> Null,
     gestureStartAngleRad |-> Null, lastCenter |-> Null, translation |-> Origin,
     calls |-> <<>>]

\* The second attachment: its closure (calls: the handler calls of the last
\* notification it received), who received the last notification ("first",
\* "other", "both"), and how many notifications so far went to one of the two
\* attachments alone.
FreshOther == [closure |-> FreshClosure, to |-> "none", alone |-> 0]

\* The ids of the contacts in the registry.
LiveIds == {pointers[i].id : i \in 1..Len(pointers)}

\* No PhaserGame component is rendered.  hostRef and gameRef are the two refs of
\* the component; runs holds one record per run of the effect (its cancelled
\* flag and where its start() is); games holds one record per engine instance
\* constructed; live says the last run of the effect has not been cleaned up.
NoPhaserGame ==
    [mounted |-> FALSE, hostRef |-> "null", gameRef |-> 0, live |-> FALSE,
     runs |-> <<>>, games |-> <<>>, windowListeners |-> {}]

\* No component: attachPinchPanGesture was called directly.  (dropped: the ids
\* the registry held when the teardown last ran.)
NoHook ==
    [mounted |-> FALSE, handlers |-> "-", handlersRef |-> "-", targetRef |-> "-",
     options |-> [preventDefault |-> "undefined", capturePointers |-> "undefined"],
     effectRan |-> FALSE, replaced |-> FALSE, dropped |-> {}, error |-> FALSE]

Init ==
    /\ listeners = EventTypes
    /\ preventDefault = TRUE       \* options = {}: both options take their defaults
    /\ capturePointers = TRUE
    /\ pointers = <<>>
    /\ active = FALSE
    /\ gestureStartCenter = Null
    /\ gestureStartDistance = Null
    /\ gestureStartAngleRad = Null
    /\ lastCenter = Null
    /\ translation = Origin
    /\ ev = [type |-> "attach", pointerId |-> 0, clientX |-> 0, clientY |-> 0,
             pointerType |-> "-", defaultPrevented |-> FALSE, capture |-> "none"]
    /\ calls = <<>>
    /\ prevCenter = Null
    /\ epochDelta = Origin
    /\ detachCalls = 0
    /\ other = FreshOther
    /\ hook = NoHook
    /\ phaserGame = NoPhaserGame

\* The sum of the deltas of the epoch after the handler calls cs, from the sum
\* before them: a start snapshot begins an epoch.
RECURSIVE sumOfDeltas(_, _)
sumOfDeltas(sum, cs) ==
    IF cs = <<>> THEN sum
    ELSE LET d == Head(cs).snapshot.delta
         IN sumOfDeltas(IF Head(cs).snapshot.phase = "start" THEN Pt(d.x, d.y)
                        ELSE Pt(sum.x + d.x, sum.y + d.y),
                        Tail(cs))

\* The closure after a handler has run: s is what the handler leaves.
Store(s) ==
    /\ pointers' = s.pointers
    /\ active' = s.active
    /\ gestureStartCenter' = s.gestureStartCenter
    /\ gestureStartDistance' = s.gestureStartDistance
    /\ gestureStartAngleRad' = s.gestureStartAngleRad
    /\ lastCenter' = s.lastCenter
    /\ translation' = s.translation
    /\ calls' = s.calls
    /\ prevCenter' = IF s.pointers = <<>> THEN Null
                     ELSE IF s.calls # <<>> THEN Some(s.calls[Len(s.calls)].snapshot.center)
                     ELSE prevCenter
    /\ epochDelta' = IF s.pointers = <<>> THEN Origin ELSE sumOfDeltas(epochDelta, s.calls)

\* The target receives the notification e: its listener, if this attachment
\* still has one registered for e.type, runs to completion.
Deliver(e, handled, capture) ==
    /\ ev' = [type |-> e.type, pointerId |-> e.pointerId,
              clientX |-> e.clientX, clientY |-> e.clientY,
              pointerType |-> e.pointerType,
              defaultPrevented |-> (e.type \in listeners /\ callsPreventDefault(Closure, e)),
              capture |-> IF e.type \in listeners THEN capture ELSE "none"]
    /\ Store(IF e.type \in listeners THEN handled ELSE Closure)
    /\ UNCHANGED <<listeners, preventDefault, capturePointers, detachCalls, other, hook, phaserGame>>

Event(type, id, p, ptype) ==
    [type |-> type, pointerId |-> id, clientX |-> p.x, clientY |-> p.y, pointerType |-> ptype]

\* A contact begins.  A contact of a tracked modality that is not live yet begins
\* only with an id of Begin.  target.setPointerCapture, when it is called, ends
\* with one of Captures ("ok", or "threw": the exception is caught and dropped).
PointerDown(Begin, Pts, Types, Captures) ==
    \E id \in AllIds, p \in Pts, ptype \in Types,
       capture \in IF capturePointers THEN Captures ELSE {"none"} :
        /\ (ptype \in TrackedTypes /\ ~Has(pointers, id)) => id \in Begin
        /\ LET e == Event("pointerdown", id, p, ptype)
           IN Deliver(e, onPointerDownCapturing(Closure, e, capture), capture)

PointerMove(Pts) ==
    \E id \in AllIds, p \in Pts :
        LET e == Event("pointermove", id, p, "-")
        IN Deliver(e, onPointerMove(Closure, e), "none")

PointerUp(Pts) ==
    \E id \in AllIds, p \in Pts :
        LET e == Event("pointerup", id, p, "-")
        IN Deliver(e, onPointerUp(Closure, e), "none")

PointerCancel(Pts) ==
    \E id \in AllIds, p \in Pts :
        LET e == Event("pointercancel", id, p, "-")
        IN Deliver(e, onPointerCancel(Closure, e), "none")

Detach ==
    /\ detachCalls < MaxDetachCalls
    /\ detachCalls' = detachCalls + 1
    /\ listeners' = removeListeners(listeners)
    /\ Store(detach(Closure))
    /\ ev' = [type |-> "detach", pointerId |-> 0, clientX |-> 0, clientY |-> 0,
              pointerType |-> "-", defaultPrevented |-> FALSE, capture |-> "none"]
    /\ hook' = [hook EXCEPT !.dropped = LiveIds]
    /\ UNCHANGED <<preventDefault, capturePointers, other, phaserGame>>

\* Two contacts at most; pointer capture succeeds.
Next ==
    \/ PointerDown(PairIds, Grid, PointerTypes, {"ok"})
    \/ PointerMove(Grid)
    \/ PointerUp(Grid)
    \/ PointerCancel(Grid)
    \/ Detach

Spec == Init /\ [][Next]_vars

\* Up to three contacts, on a line; the modality is touch or one off the allow-list.
NextCrowd ==
    \/ PointerDown(AllIds, Line, {"touch", "other"}, {"ok"})
    \/ PointerMove(Line)
    \/ PointerUp(Line)
    \/ PointerCancel(Line)
    \/ Detach

SpecCrowd == Init /\ [][NextCrowd]_vars

\* One contact at a time: a contact of a tracked modality begins only while the
\* registry is empty.
NextSolo ==
    \/ PointerDown(IF pointers = <<>> THEN AllIds ELSE {}, Grid, PointerTypes, {"ok"})
    \/ PointerMove(Grid)
    \/ PointerUp(Grid)
    \/ PointerCancel(Grid)
    \/ Detach

SpecSolo == Init /\ [][NextSolo]_vars

\* The notifications of further contacts, with the ids Ids, of the touch modality.
ExtraContact(Ids, Pts) ==
    \E id \in Ids, p \in Pts, type \in EventTypes :
        LET e == Event(type, id, p, IF type = "pointerdown" THEN "touch" ELSE "-")
            capture == IF type = "pointerdown" /\ capturePointers THEN "ok" ELSE "none"
        IN Deliver(e,
                   CASE type = "pointerdown" -> onPointerDownCapturing(Closure, e, capture)
                     [] type = "pointermove" -> onPointerMove(Closure, e)
                     [] type = "pointerup" -> onPointerUp(Closure, e)
                     [] type = "pointercancel" -> onPointerCancel(Closure, e),
                   capture)

\* Up to four touch contacts, each at one of two points.
Ends == {Pt(0, 0), Pt(2, 0)}
NextFour ==
    \/ PointerDown(AllIds, Ends, {"touch"}, {"ok"})
    \/ PointerMove(Ends)
    \/ PointerUp(Ends)
    \/ PointerCancel(Ends)
    \/ ExtraContact({4}, Ends)
    \/ Detach

SpecFour == Init /\ [][NextFour]_vars

\* An attachment with any options.
InitOptions ==
    /\ listeners = EventTypes
    /\ preventDefault \in BOOLEAN
    /\ capturePointers \in BOOLEAN
    /\ pointers = <<>>
    /\ active = FALSE
    /\ gestureStartCenter = Null
    /\ gestureStartDistance = Null
    /\ gestureStartAngleRad = Null
    /\ lastCenter = Null
    /\ translation = Origin
    /\ ev = [type |-> "attach", pointerId |-> 0, clientX |-> 0, clientY |-> 0,
             pointerType |-> "-", defaultPrevented |-> FALSE, capture |-> "none"]
    /\ calls = <<>>
    /\ prevCenter = Null
    /\ epochDelta = Origin
    /\ detachCalls = 0
    /\ other = FreshOther
    /\ hook = NoHook
    /\ phaserGame = NoPhaserGame

\* Two contacts at most, on a line; the pointer capture succeeds or throws.
NextOptions ==
    \/ PointerDown(PairIds, Line, {"touch", "other"}, {"ok", "threw"})
    \/ PointerMove(Line)
    \/ PointerUp(Line)
    \/ PointerCancel(Line)
    \/ Detach

SpecOptions == InitOptions /\ [][NextOptions]_vars

\* ------------------------------------------------- usePinchPanGesture
\* hook is the component that calls usePinchPanGesture(targetRef, handlers,
\* options): the arguments of its last render (handlers and targetRef by
\* identity), handlersRef.current, whether the attach effect ran at the last
\* render and whether that render replaced the handlers, the ids the registry
\* held when the last cleanup ran, and whether attachPinchPanGesture has thrown.
Handlers == {"h1", "h2"}
\* refElement.current is an element, refNull.current is null.
TargetRefs == {"refElement", "refNull"}
OptionObjects ==
    {[preventDefault |-> "undefined", capturePointers |-> "undefined"],
     [preventDefault |-> "true", capturePointers |-> "undefined"],
     [preventDefault |-> "false", capturePointers |-> "undefined"],
     [preventDefault |-> "undefined", capturePointers |-> "false"]}

\* const { preventDefault = true, capturePointers = true } = options
defaulted(v) == v # "false"

current(ref) == ref = "refElement"

\* The dependencies of the attach effect.
deps(h) == <<h.targetRef, h.options.capturePointers, h.options.preventDefault>>

\* The attach effect depending on handlers too.
attachEffectRunsOnHandlers(old, new) ==
    deps(old) # deps(new) \/ old.handlers # new.handlers

\* The attach effect depending on targetRef alone.
attachEffectRunsOnTarget(old, new) == old.targetRef # new.targetRef

\* Whether the attach effect runs again at a render with the arguments new
\* after one with the arguments old: one of its dependencies has changed.
attachEffectRuns(old, new) == deps(old) # deps(new)

\* The attach effect without its "if (!el) return".
attachesUnguarded(ref) == TRUE

\* Whether the attach effect, when it runs, calls attachPinchPanGesture.
attaches(ref) == current(ref)

\* handlersRef.current after the effect on [handlers]: the handlers of the render.
refAfterEffect(ref, handlers) == handlers

\* The handlers a snapshot emitted now is forwarded to: the attachment's own
\* handlers are (s) => handlersRef.current.onX?.(s).
receiver(h) == h.handlersRef

\* What the attach effect leaves when it runs with the arguments of h: the
\* listeners, the closure, and whether attachPinchPanGesture threw
\* (target.style of null).
attachEffect(h) ==
    LET called == attaches(h.targetRef)
        threw == called /\ ~current(h.targetRef)
    IN [listeners |-> IF called /\ ~threw THEN EventTypes ELSE {},
        preventDefault |-> defaulted(h.options.preventDefault),
        capturePointers |-> defaulted(h.options.capturePointers),
        error |-> threw]

RenderEv(type) ==
    [type |-> type, pointerId |-> 0, clientX |-> 0, clientY |-> 0,
     pointerType |-> "-", defaultPrevented |-> FALSE, capture |-> "none"]

\* The component has mounted: the first render and its effects.
InitHook ==
    \E h \in Handlers, o \in OptionObjects, r \in TargetRefs :
        LET first == [mounted |-> TRUE, handlers |-> h, handlersRef |-> h,
                      targetRef |-> r, options |-> o, effectRan |-> TRUE,
                      replaced |-> FALSE, dropped |-> {}, error |-> FALSE]
            att == attachEffect(first)
        IN /\ hook = [first EXCEPT !.error = att.error]
           /\ phaserGame = NoPhaserGame
           /\ listeners = att.listeners
           /\ preventDefault = att.preventDefault
           /\ capturePointers = att.capturePointers
           /\ pointers = <<>>
           /\ active = FALSE
           /\ gestureStartCenter = Null
           /\ gestureStartDistance = Null
           /\ gestureStartAngleRad = Null
           /\ lastCenter = Null
           /\ translation = Origin
           /\ ev = RenderEv("attach")
           /\ calls = <<>>
           /\ prevCenter = Null
           /\ epochDelta = Origin
           /\ detachCalls = 0
           /\ other = FreshOther

\* The component renders again with the arguments h, o, r, and its effects run:
\* handlersRef.current takes the handlers; if a dependency of the attach effect
\* has changed, the cleanup of the last attachment runs (if there is one) and
\* the effect attaches anew.
Rerender ==
    \E h \in Handlers, o \in OptionObjects, r \in TargetRefs :
        LET new == [hook EXCEPT !.handlers = h, !.options = o, !.targetRef = r,
                                !.handlersRef = refAfterEffect(@, h),
                                !.replaced = (h # hook.handlers)]
            ran == attachEffectRuns(hook, new)
            att == attachEffect(new)
        IN /\ hook.mounted
           /\ ev' = RenderEv("render")
           /\ IF ran
              THEN /\ hook' = [new EXCEPT !.effectRan = TRUE,
                                          !.dropped = LiveIds,
                                          !.error = @ \/ att.error]
                   /\ listeners' = att.listeners
                   /\ preventDefault' = att.preventDefault
                   /\ capturePointers' = att.capturePointers
                   /\ Store(detach(Closure))
                   /\ detachCalls' = 0
              ELSE /\ hook' = [new EXCEPT !.effectRan = FALSE]
                   /\ Store(Closure)
                   /\ UNCHANGED <<listeners, preventDefault, capturePointers, detachCalls>>
           /\ UNCHANGED <<other, phaserGame>>

\* The component unmounts: the cleanup of the attachment runs, if there is one.
Unmount ==
    /\ hook.mounted
    /\ hook' = [hook EXCEPT !.mounted = FALSE, !.effectRan = FALSE, !.replaced = FALSE,
                            !.dropped = LiveIds]
    /\ ev' = RenderEv("unmount")
    /\ listeners' = removeListeners(listeners)
    /\ Store(detach(Closure))
    /\ detachCalls' = IF listeners # {} THEN detachCalls + 1 ELSE detachCalls
    /\ UNCHANGED <<preventDefault, capturePointers, other, phaserGame>>

\* A component with usePinchPanGesture, and up to two touch contacts.
NextHook ==
    \/ PointerDown(PairIds, Ends, {"touch"}, {"ok"})
    \/ PointerMove(Ends)
    \/ PointerUp(Ends)
    \/ PointerCancel(Ends)
    \/ Rerender
    \/ Unmount

SpecHook == InitHook /\ [][NextHook]_vars

\* The listener of e.type, run on the closure s.
listenerOf(s, e) ==
    CASE e.type = "pointerdown" -> onPointerDown(s, e)
      [] e.type = "pointermove" -> onPointerMove(s, e)
      [] e.type = "pointerup" -> onPointerUp(s, e)
      [] e.type = "pointercancel" -> onPointerCancel(s, e)

\* The two attachments having one registry between them: the Map declared once,
\* outside attachPinchPanGesture.
isolatedSharesRegistry(own, foreign) == [own EXCEPT !.pointers = foreign.pointers]

\* The closure own of one attachment once a listener of another attachment has
\* left that one's closure as foreign: every call of attachPinchPanGesture
\* declares its own pointers, active, anchors, lastCenter and translation, so
\* nothing of own is within reach of the other's listeners.
isolated(own, foreign) == own

\* The closure of the first attachment with the handler calls of its last
\* notification.
FirstClosure == [Closure EXCEPT !.calls = calls]

TwinEvent(type, id, p) ==
    Event(type, id, p, IF type = "pointerdown" THEN "touch" ELSE "-")
TwinEv(e) ==
    [type |-> e.type, pointerId |-> e.pointerId, clientX |-> e.clientX,
     clientY |-> e.clientY, pointerType |-> e.pointerType,
     defaultPrevented |-> callsPreventDefault(Closure, e),
     capture |-> IF e.type = "pointerdown" THEN "ok" ELSE "none"]

\* The same notification is delivered to both attachments, the first one first.
TwinBoth(Pts) ==
    \E type \in EventTypes, id \in PairIds, p \in Pts :
        LET e == TwinEvent(type, id, p)
            a == listenerOf(Closure, e)
            b == listenerOf([isolated(other.closure, a) EXCEPT !.calls = <<>>], e)
        IN /\ ev' = TwinEv(e)
           /\ Store(isolated(a, b))
           /\ other' = [other EXCEPT !.closure = b, !.to = "both"]
           /\ UNCHANGED <<listeners, preventDefault, capturePointers, detachCalls, hook, phaserGame>>

\* A notification is delivered to the first attachment alone.
TwinFirst(Pts) ==
    \E type \in EventTypes, id \in PairIds, p \in Pts :
        LET e == TwinEvent(type, id, p)
            a == listenerOf(Closure, e)
        IN /\ other.alone < MaxAlone
           /\ ev' = TwinEv(e)
           /\ Store(a)
           /\ other' = [other EXCEPT !.closure = isolated(@, a), !.to = "first",
                                     !.alone = @ + 1]
           /\ UNCHANGED <<listeners, preventDefault, capturePointers, detachCalls, hook, phaserGame>>

\* A notification is delivered to the second attachment alone.
TwinOther(Pts) ==
    \E type \in EventTypes, id \in PairIds, p \in Pts :
        LET e == TwinEvent(type, id, p)
            b == listenerOf([other.closure EXCEPT !.calls = <<>>], e)
        IN /\ other.alone < MaxAlone
           /\ ev' = TwinEv(e)
           /\ pointers' = isolated(FirstClosure, b).pointers
           /\ UNCHANGED <<active, gestureStartCenter, gestureStartDistance,
                          gestureStartAngleRad, lastCenter, translation, calls,
                          prevCenter, epochDelta>>
           /\ other' = [other EXCEPT !.closure = b, !.to = "other", !.alone = @ + 1]
           /\ UNCHANGED <<listeners, preventDefault, capturePointers, detachCalls, hook, phaserGame>>

\* Two attachments, each with the default options, of two touch contacts.
NextTwin ==
    \/ TwinBoth(Ends)
    \/ TwinFirst(Ends)
    \/ TwinOther(Ends)

SpecTwin == Init /\ [][NextTwin]_vars

\* ---------------------------------------------------------- PhaserGame
\* phaserGame is the component PhaserGame of components/game/phaser-game.tsx:
\* its effect starts the asynchronous import of the engine, and the
\* continuation of start() constructs the game when the import completes.  A
\* game is destroyed when destroy(true) has been called on it.  The imports of
\* different runs complete in any order.

\* What every step of the PhaserGame component leaves alone.
GestureVars == <<listeners, preventDefault, capturePointers, pointers, active,
                 gestureStartCenter, gestureStartDistance, gestureStartAngleRad,
                 lastCenter, translation, ev, calls, prevCenter, epochDelta,
                 detachCalls, other, hook>>

\* The two event types the component listens to on window.
WindowEvents == {"resize", "orientationchange"}

\* start() up to its await: it returns at once without a host element.
startEffect(p) ==
    [cancelled |-> FALSE,
     at |-> IF p.hostRef = "null" THEN "returned" ELSE "importing"]

\* The continuation without the cancelled check.
resumeIgnoringCancelled(p, i) ==
    IF p.gameRef # 0
    THEN [p EXCEPT !.runs[i].at = "kept"]
    ELSE LET g == Len(p.games) + 1
         IN [p EXCEPT !.runs[i].at = "created",
                      !.games = Append(@, [destroyed |-> FALSE, by |-> i]),
                      !.gameRef = g,
                      !.windowListeners = @ \cup {<<t, g>> : t \in WindowEvents}]

\* The continuation of start() of run i after "await import": it returns if the
\* run was cancelled or gameRef holds a game; otherwise it constructs game g,
\* stores it in gameRef and adds the two window listeners of g.
resume(p, i) ==
    IF p.runs[i].cancelled
    THEN [p EXCEPT !.runs[i].at = "cancelled"]
    ELSE IF p.gameRef # 0
    THEN [p EXCEPT !.runs[i].at = "kept"]
    ELSE LET g == Len(p.games) + 1
         IN [p EXCEPT !.runs[i].at = "created",
                      !.games = Append(@, [destroyed |-> FALSE, by |-> i]),
                      !.gameRef = g,
                      !.windowListeners = @ \cup {<<t, g>> : t \in WindowEvents}]

\* The cleanup the effect returns, for the last run: it cancels the run, and
\* for the game in gameRef, if any, calls __ticCleanup (removing its window
\* listeners) and destroy(true); then it clears gameRef.
cleanup(p) ==
    [p EXCEPT !.runs[Len(p.runs)].cancelled = TRUE,
              !.windowListeners = {l \in @ : l[2] # p.gameRef},
              !.games = IF p.gameRef = 0 THEN @
                        ELSE [@ EXCEPT ![p.gameRef].destroyed = TRUE],
              !.gameRef = 0]

\* The component has been rendered and committed: the host div is in hostRef,
\* the effect has not run yet.  No gesture recognizer is in use.
InitPhaser ==
    /\ listeners = {}
    /\ preventDefault = TRUE
    /\ capturePointers = TRUE
    /\ pointers = <<>>
    /\ active = FALSE
    /\ gestureStartCenter = Null
    /\ gestureStartDistance = Null
    /\ gestureStartAngleRad = Null
    /\ lastCenter = Null
    /\ translation = Origin
    /\ ev = [type |-> "render", pointerId |-> 0, clientX |-> 0, clientY |-> 0,
             pointerType |-> "-", defaultPrevented |-> FALSE, capture |-> "none"]
    /\ calls = <<>>
    /\ prevCenter = Null
    /\ epochDelta = Origin
    /\ detachCalls = 0
    /\ other = FreshOther
    /\ hook = NoHook
    /\ phaserGame = [NoPhaserGame EXCEPT !.mounted = TRUE, !.hostRef = "div"]

\* The effect runs: after the first commit, or again after its cleanup (a
\* change of logicalWidth or logicalHeight, or a development double run).
EffectRun ==
    /\ phaserGame.mounted
    /\ ~phaserGame.live
    /\ Len(phaserGame.runs) < MaxRuns
    /\ phaserGame' = [phaserGame EXCEPT !.live = TRUE,
                                        !.runs = Append(@, startEffect(phaserGame))]
    /\ UNCHANGED GestureVars

\* The cleanup of the last run, before the effect runs again.
EffectCleanup ==
    /\ phaserGame.mounted
    /\ phaserGame.live
    /\ phaserGame' = [cleanup(phaserGame) EXCEPT !.live = FALSE]
    /\ UNCHANGED GestureVars

\* The component unmounts: the host div leaves hostRef and the final cleanup
\* runs.
PhaserUnmount ==
    /\ phaserGame.mounted
    /\ phaserGame.live
    /\ phaserGame' = [cleanup(phaserGame) EXCEPT !.live = FALSE, !.mounted = FALSE,
                                                 !.hostRef = "null"]
    /\ UNCHANGED GestureVars

\* The import of run i completes and start() resumes.
ImportResolves ==
    \E i \in 1..Len(phaserGame.runs) :
        /\ phaserGame.runs[i].at = "importing"
        /\ phaserGame' = resume(phaserGame, i)
        /\ UNCHANGED GestureVars

\* The import of run i fails: start() ends there.
ImportRejects ==
    \E i \in 1..Len(phaserGame.runs) :
        /\ phaserGame.runs[i].at = "importing"
        /\ phaserGame' = [phaserGame EXCEPT !.runs[i].at = "rejected"]
        /\ UNCHANGED GestureVars

NextPhaser ==
    \/ EffectRun
    \/ EffectCleanup
    \/ PhaserUnmount
    \/ ImportResolves
    \/ ImportRejects

SpecPhaser == InitPhaser /\ [][NextPhaser]_vars

\* ------------------------------------------------------------ properties
\* What the properties below say about a step is said of the step that
\* delivers the notification ev' in the state before it.

\* The listener of the notification ev' runs in this step.
Handled == ev'.type \in listeners
\* The contact of the notification ev' is in the registry before the step.
Tracked == Has(pointers, ev'.pointerId)
IsRelease(type) == type \in {"pointerup", "pointercancel"}
PhaseOf(type) == IF type = "pointerup" THEN "end" ELSE "cancel"

\* The center of the live contacts, from the registry: the midpoint of the first
\* two, or the only one.
IsCenterOf(c, ptrs) ==
    IF Len(ptrs) = 1 THEN c.x = ptrs[1].x /\ c.y = ptrs[1].y
    ELSE 2 * c.x = ptrs[1].x + ptrs[2].x /\ 2 * c.y = ptrs[1].y + ptrs[2].y

\* The square of the distance between the first two live contacts.
PairDistance(ptrs) ==
    (ptrs[2].x - ptrs[1].x) * (ptrs[2].x - ptrs[1].x)
        + (ptrs[2].y - ptrs[1].y) * (ptrs[2].y - ptrs[1].y)

\* The anchors and the last-emitted center.
Session == <<gestureStartCenter, gestureStartDistance, gestureStartAngleRad, lastCenter>>
SessionIsReset ==
    /\ gestureStartCenter = Null
    /\ gestureStartDistance = Null
    /\ gestureStartAngleRad = Null
    /\ lastCenter = Null
    /\ translation = Origin

\* C1: an end or cancel of a tracked contact that leaves 1 or 2 contacts live
\* calls the end/cancel handler and then, as the only other call of the step,
\* onStart with a snapshot re-anchored to the remaining contacts: translation
\* (0,0), delta (0,0), scale 1, rotation 0, center the center of the remaining
\* contacts.
C1_ReleaseRebases ==
    [][(IsRelease(ev'.type) /\ Handled /\ Tracked /\ Len(pointers') \in {1, 2}) =>
        /\ Len(calls') = 2
        /\ calls'[1].snapshot.phase = PhaseOf(ev'.type)
        /\ calls'[1].handler = HandlerOf(PhaseOf(ev'.type))
        /\ calls'[2].handler = "onStart"
        /\ LET start == calls'[2].snapshot
           IN /\ start.phase = "start"
              /\ start.translation = Origin
              /\ start.delta = Origin
              /\ start.scale = One
              /\ start.rotationRad = ZeroRad
              /\ IsCenterOf(start.center, pointers')]_vars

\* A release that left two contacts live, after a gesture that had moved off
\* its anchor.
C1_Witness ==
    /\ IsRelease(ev.type)
    /\ Len(pointers) = 2
    /\ Len(calls) = 2
    /\ calls[1].snapshot.translation # Origin
    /\ calls[2].snapshot.translation = Origin

\* C2: a contact-begin of a tracked modality after which 1 or 2 contacts are live
\* anchors the session to the geometry of that moment (center, and with two
\* contacts their distance and bearing) and calls onStart once, with translation
\* (0,0), scale 1 and rotation 0.
C2_BeginAnchors ==
    [][(ev'.type = "pointerdown" /\ Handled /\ ev'.pointerType \in TrackedTypes
            /\ Len(pointers') \in {1, 2}) =>
        /\ Len(calls') = 1
        /\ calls'[1].handler = "onStart"
        /\ calls'[1].snapshot.phase = "start"
        /\ calls'[1].snapshot.translation = Origin
        /\ calls'[1].snapshot.scale = One
        /\ calls'[1].snapshot.rotationRad = ZeroRad
        /\ gestureStartCenter' # Null
        /\ IsCenterOf(gestureStartCenter'[1], pointers')
        /\ IF Len(pointers') = 2
           THEN /\ gestureStartDistance' = Some(PairDistance(pointers'))
                /\ gestureStartAngleRad' =
                       Some(Atan2(pointers'[2].y - pointers'[1].y,
                                  pointers'[2].x - pointers'[1].x))
           ELSE gestureStartDistance' = Null /\ gestureStartAngleRad' = Null]_vars

\* A second contact has just begun away from the first: the pinch anchors are
\* those of this moment.
C2_Witness ==
    /\ ev.type = "pointerdown"
    /\ Len(pointers) = 2
    /\ ev.pointerId = pointers[2].id
    /\ Len(calls) = 1
    /\ gestureStartDistance # Null
    /\ gestureStartDistance[1] > 0
    /\ calls[1].snapshot.pinchDistance = gestureStartDistance

\* C3: a contact-begin whose modality is off the allow-list changes nothing: no
\* registry entry, no handler call, the session as it was.
C3_UntrackedBeginIgnored ==
    [][(ev'.type = "pointerdown" /\ ev'.pointerType \notin TrackedTypes) =>
        /\ pointers' = pointers
        /\ calls' = <<>>
        /\ Session' = Session]_vars

\* C4: the release of the last live contact empties the registry and discards
\* the session (Idle); and while the registry is empty no move, end or cancel
\* notification calls a handler or changes the registry or the session.
C4_LastReleaseGoesIdle ==
    [][/\ (IsRelease(ev'.type) /\ Handled /\ Tracked /\ Len(pointers) = 1) =>
            /\ pointers' = <<>>
            /\ ~active'
            /\ SessionIsReset'
       /\ (pointers = <<>> /\ ev'.type \in {"pointermove", "pointerup", "pointercancel"}) =>
            /\ calls' = <<>>
            /\ pointers' = <<>>
            /\ active' = active
            /\ Session' = Session]_vars

\* The last contact has just been released.
C4_Witness ==
    /\ IsRelease(ev.type)
    /\ pointers = <<>>
    /\ Len(calls) = 1
    /\ calls[1].snapshot.phase = PhaseOf(ev.type)
    /\ calls[1].snapshot.pointers = 0

\* C5: a move, end or cancel notification of a contact that is not in the
\* registry calls no handler and leaves the registry and the session unchanged.
C5_UnknownContactIgnored ==
    [][(ev'.type \in {"pointermove", "pointerup", "pointercancel"} /\ ~Tracked) =>
        /\ calls' = <<>>
        /\ pointers' = pointers
        /\ active' = active
        /\ Session' = Session
        /\ translation' = translation]_vars

\* A move of an unknown contact was delivered while two contacts were live.
C5_Witness ==
    /\ ev.type = "pointermove"
    /\ "pointermove" \in listeners
    /\ Len(pointers) = 2
    /\ ~Has(pointers, ev.pointerId)

\* C6: once the teardown has been called, no notification delivered to the
\* target calls a handler.
C6_NoCallAfterDetach == detachCalls > 0 => calls = <<>>

\* A contact-begin of a tracked modality was delivered after the teardown.
C6_Witness ==
    /\ detachCalls > 0
    /\ ev.type = "pointerdown"
    /\ ev.pointerType = "touch"

\* C7: the teardown removes the four listeners, empties the registry and resets
\* the session to Idle; a later call changes nothing.
C7_DetachIdempotent ==
    [][ev'.type = "detach" =>
        /\ listeners' = {}
        /\ pointers' = <<>>
        /\ ~active'
        /\ SessionIsReset'
        /\ calls' = <<>>
        /\ detachCalls > 0 =>
             <<listeners, pointers, active, Session, translation>>'
                 = <<listeners, pointers, active, Session, translation>>]_vars

\* The teardown has been called a second time.
C7_Witness == ev.type = "detach" /\ detachCalls >= 2

\* The center of the snapshot emitted before call i of the step, in the session.
EmittedBefore(i) ==
    IF i = 1 THEN prevCenter ELSE Some(calls'[i - 1].snapshot.center)

C9_MoveEmitsTranslation ==
    [][(ev'.type = "pointermove" /\ Handled /\ Tracked /\ Len(pointers) \in {1, 2}) =>
        /\ Len(pointers') = Len(pointers)
        /\ \A i \in 1..Len(pointers) :
             /\ pointers'[i].id = pointers[i].id
             /\ IF pointers[i].id = ev'.pointerId
                THEN pointers'[i].x = ev'.clientX /\ pointers'[i].y = ev'.clientY
                ELSE pointers'[i] = pointers[i]
        /\ Len(calls') = 1
        /\ calls'[1].handler = "onMove"
        /\ calls'[1].snapshot.phase = "move"
        /\ IsCenterOf(calls'[1].snapshot.center, pointers')
        /\ gestureStartCenter # Null
        /\ gestureStartCenter' = gestureStartCenter
        /\ calls'[1].snapshot.translation.x
               = calls'[1].snapshot.center.x - gestureStartCenter[1].x
        /\ calls'[1].snapshot.translation.y
               = calls'[1].snapshot.center.y - gestureStartCenter[1].y]_vars

\* One of two live contacts has just moved, off the anchor.
C9_Witness ==
    /\ ev.type = "pointermove"
    /\ Len(pointers) = 2
    /\ Len(calls) = 1
    /\ calls[1].snapshot.translation # Origin

\* The anchor distance snapshot i of the step is measured against: a start
\* snapshot against the anchor its re-anchor has set, any other against the
\* anchor the step found.
AnchorDistanceOf(i) ==
    IF calls'[i].snapshot.phase = "start" THEN gestureStartDistance' ELSE gestureStartDistance

\* C10: the scale of a snapshot is the pinch distance over the anchor distance
\* when the snapshot has a pinch distance and the anchor distance is set and not
\* 0, and 1 otherwise (so with an anchor distance of 0 it is 1).  With distances
\* carried as squares, scale = <<n, m>> in lowest terms with n * anchor = m * distance.
C10_ScaleIsQuotient ==
    [][\A i \in 1..Len(calls') :
        LET s == calls'[i].snapshot
            anchor == AnchorDistanceOf(i)
        IN IF s.pinchDistance # Null /\ anchor # Null /\ anchor[1] # 0
           THEN /\ s.scale[2] > 0
                /\ s.scale[1] * anchor[1] = s.scale[2] * s.pinchDistance[1]
                /\ Gcd(s.scale[1], s.scale[2]) = 1
           ELSE s.scale = One]_vars

\* A move has doubled the distance of two contacts from its anchor: scale 2.
C10_Witness ==
    /\ ev.type = "pointermove"
    /\ Len(calls) = 1
    /\ gestureStartDistance # Null
    /\ calls[1].snapshot.pinchDistance = Some(4 * gestureStartDistance[1])
    /\ calls[1].snapshot.scale = <<4, 1>>

\* Two contacts began at one point (anchor distance 0) and one has moved away:
\* the scale is 1.
C10_ZeroAnchorReached ==
    /\ ev.type = "pointermove"
    /\ Len(calls) = 1
    /\ gestureStartDistance = Some(0)
    /\ calls[1].snapshot.pinchDistance # Some(0)
    /\ calls[1].snapshot.scale = One

\* C11: in a behaviour where at most one contact is live at any time, every
\* snapshot a notification emits has scale 1 and rotation 0.
C11_SoloIsNeutral ==
    /\ Len(pointers) <= 1
    /\ \A i \in 1..Len(calls) :
         /\ calls[i].snapshot.scale = One
         /\ calls[i].snapshot.rotationRad = ZeroRad

\* The only live contact has just moved off its anchor.
C11_Witness ==
    /\ ev.type = "pointermove"
    /\ Len(pointers) = 1
    /\ Len(calls) = 1
    /\ calls[1].snapshot.translation # Origin
    /\ calls[1].snapshot.scale = One

\* The registry without the contact id, the others in their order.
Without(ptrs, id) ==
    [i \in 1..(Len(ptrs) - 1) |-> IF \A j \in 1..i : ptrs[j].id # id THEN ptrs[i] ELSE ptrs[i + 1]]

\* C12: the geometry of a snapshot is that of the first two live contacts in
\* insertion order (the midpoint and distance of the two, or the only contact;
\* of no contact the center is (0,0)).  A new position of a live contact is
\* stored in place; a contact that begins goes last, a released one leaves the
\* others in their order; and while two or more contacts are live the first two
\* stay the first two until one of them is released.
C12_FirstTwoInOrder ==
    [][/\ computeMetrics(<<>>).center = Origin
       /\ \A i \in 1..Len(calls') :
            Len(pointers') >= 1 =>
              /\ IsCenterOf(calls'[i].snapshot.center, pointers')
              /\ calls'[i].snapshot.pinchDistance =
                     IF Len(pointers') >= 2 THEN Some(PairDistance(pointers')) ELSE Null
       /\ (ev'.type \in {"pointermove", "pointerdown"} /\ Handled /\ Tracked) =>
              /\ Len(pointers') = Len(pointers)
              /\ \A i \in 1..Len(pointers) : pointers'[i].id = pointers[i].id
       /\ (ev'.type = "pointerdown" /\ Handled /\ ~Tracked
               /\ ev'.pointerType \in TrackedTypes) =>
              pointers' = Append(pointers, [id |-> ev'.pointerId,
                                            x |-> ev'.clientX, y |-> ev'.clientY])
       /\ (IsRelease(ev'.type) /\ Handled /\ Tracked) =>
              pointers' = Without(pointers, ev'.pointerId)
       /\ (Len(pointers) >= 2 /\ ev'.type # "detach"
               /\ ~(IsRelease(ev'.type) /\ Handled
                       /\ ev'.pointerId \in {pointers[1].id, pointers[2].id})) =>
              /\ Len(pointers') >= 2
              /\ pointers'[1].id = pointers[1].id
              /\ pointers'[2].id = pointers[2].id]_vars

\* The first of three live contacts has just been released: the third is now one
\* of the two the geometry is measured on.
C12_Witness ==
    /\ IsRelease(ev.type)
    /\ Len(pointers) = 2
    /\ ev.pointerId = 1
    /\ pointers[1].id = 2
    /\ pointers[2].id = 3
    /\ Len(calls) = 2
    /\ calls[2].snapshot.pinchDistance = Some(PairDistance(pointers))
    /\ PairDistance(pointers) > 0

\* C13: with more than two contacts live, a contact-begin (after which more than
\* two are live) and a move of a live contact only update the registry: no
\* handler is called, and the anchors, the last-emitted center and the
\* translation stay as they were.
C13_CrowdOnlyTracks ==
    [][/\ (ev'.type = "pointerdown" /\ Handled /\ Len(pointers') > 2) =>
            /\ calls' = <<>>
            /\ Session' = Session
            /\ translation' = translation
            /\ active' = active
            /\ pointers' = IF ev'.pointerType \in TrackedTypes
                           THEN MapSet(pointers, ev'.pointerId, ev'.clientX, ev'.clientY)
                           ELSE pointers
       /\ (ev'.type = "pointermove" /\ Handled /\ Tracked /\ Len(pointers) > 2) =>
            /\ calls' = <<>>
            /\ Session' = Session
            /\ translation' = translation
            /\ active' = active
            /\ pointers' = MapSet(pointers, ev'.pointerId, ev'.clientX, ev'.clientY)]_vars

\* One of the first two of three live contacts has just moved: the registry has
\* its new position, which changes the center, and no handler was called.
C13_Witness ==
    /\ ev.type = "pointermove"
    /\ Len(pointers) = 3
    /\ ev.pointerId = pointers[1].id
    /\ pointers[1].x = ev.clientX
    /\ calls = <<>>
    /\ lastCenter # Null
    /\ ~IsCenterOf(lastCenter[1], pointers)

\* C14: an end or cancel of a live contact removes it from the registry and
\* emits one snapshot of the matching phase, its geometry that of the contacts
\* that remain; when none remains its center is the last-emitted center, so
\* that delta is (0,0), its contact count is 0, its scale 1 and its rotation 0.
C14_ReleaseEmitsOnce ==
    [][(IsRelease(ev'.type) /\ Handled /\ Tracked) =>
        /\ ~Has(pointers', ev'.pointerId)
        /\ Len(pointers') = Len(pointers) - 1
        /\ calls' # <<>>
        /\ calls'[1].handler = HandlerOf(PhaseOf(ev'.type))
        /\ Cardinality({i \in 1..Len(calls') :
                           calls'[i].snapshot.phase = PhaseOf(ev'.type)}) = 1
        /\ LET s == calls'[1].snapshot
           IN /\ s.phase = PhaseOf(ev'.type)
              /\ IF Len(pointers') >= 1
                 THEN /\ IsCenterOf(s.center, pointers')
                      /\ s.pinchDistance =
                             IF Len(pointers') >= 2 THEN Some(PairDistance(pointers'))
                             ELSE Null
                 ELSE /\ lastCenter # Null
                      /\ s.center = lastCenter[1]
                      /\ s.delta = Origin
                      /\ s.pointers = 0
                      /\ s.pinchDistance = Null
                      /\ s.scale = One
                      /\ s.rotationRad = ZeroRad]_vars

\* The last contact has just been released away from the last-emitted center:
\* the snapshot has that center, not the position of the release.
C14_Witness ==
    /\ IsRelease(ev.type)
    /\ pointers = <<>>
    /\ Len(calls) = 1
    /\ calls[1].snapshot.center # Pt(ev.clientX, ev.clientY)
    /\ calls[1].snapshot.delta = Origin
    /\ calls[1].snapshot.pointers = 0

\* The three anchors of the session.
Anchors == <<gestureStartCenter, gestureStartDistance, gestureStartAngleRad>>

PinchAnchorsIffPair ==
    /\ gestureStartDistance # Null <=> Len(pointers) >= 2
    /\ gestureStartAngleRad # Null <=> Len(pointers) >= 2

\* C16: between notifications the anchor distance and the anchor angle are set
\* exactly when two or more contacts are live; and no emission captures a pinch
\* anchor: whenever a snapshot has a pinch distance both anchors are set already.
C16_NoLazyCapture ==
    [][/\ PinchAnchorsIffPair
       /\ PinchAnchorsIffPair'
       /\ \A i \in 1..Len(calls') : ~calls'[i].lazyCapture]_vars

\* A second contact has just begun: the start snapshot has a pinch distance and
\* its emission found both pinch anchors set.
C16_Witness ==
    /\ ev.type = "pointerdown"
    /\ Len(pointers) = 2
    /\ ev.pointerId = pointers[2].id
    /\ Len(calls) = 1
    /\ calls[1].snapshot.pinchDistance # Null
    /\ ~calls[1].lazyCapture
    /\ gestureStartAngleRad # Null

\* C17: the contact count of a snapshot is the number of contacts live once the
\* notification has updated the registry, but 2 when that is more than 2 (so it
\* is 0, 1 or 2); and the snapshot has a pinch distance exactly when its contact
\* count is 2.
C17_CountClamped ==
    [][\A i \in 1..Len(calls') :
        LET s == calls'[i].snapshot
        IN /\ s.pointers = IF Len(pointers') > 2 THEN 2 ELSE Len(pointers')
           /\ s.pointers \in {0, 1, 2}
           /\ s.pinchDistance # Null <=> s.pointers = 2]_vars

\* One of four live contacts has just been released: three are live, and the
\* end snapshot counts 2.
C17_Witness ==
    /\ IsRelease(ev.type)
    /\ Len(pointers) = 3
    /\ Len(calls) = 1
    /\ calls[1].snapshot.pointers = 2
    /\ calls[1].snapshot.pinchDistance # Null

\* The anchor angle snapshot i of the step is measured against: a start snapshot
\* against the anchor its re-anchor has set, any other against the anchor the
\* step found.
AnchorAngleOf(i) ==
    IF calls'[i].snapshot.phase = "start" THEN gestureStartAngleRad' ELSE gestureStartAngleRad

\* C18: the rotation of a snapshot with a pinch distance is the bearing from the
\* first live contact to the second minus the anchor angle, as the plain
\* difference <<bearing, anchor>> of the two angles of (-pi, pi], nothing added
\* to bring it back into (-pi, pi]; and with the anchor angle 0 and the second
\* contact straight below the first (y grows downwards) it is pi / 2.
C18_RotationIsDifference ==
    [][\A i \in 1..Len(calls') :
        LET s == calls'[i].snapshot
            anchor == AnchorAngleOf(i)
        IN s.pinchDistance # Null =>
             LET bearing == Atan2(pointers'[2].y - pointers'[1].y,
                                  pointers'[2].x - pointers'[1].x)
             IN /\ anchor # Null
                /\ s.rotationRad =
                       IF bearing = anchor[1] THEN ZeroRad ELSE <<bearing, anchor[1]>>
                /\ (anchor[1] = <<1, 0>> /\ pointers'[2].x = pointers'[1].x
                        /\ pointers'[2].y > pointers'[1].y) =>
                       IsQuarterTurn(s.rotationRad)]_vars

\* A move has taken the bearing of two contacts across the cut at +-pi: the
\* rotation of the snapshot is outside (-pi, pi].
C18_Witness ==
    /\ ev.type = "pointermove"
    /\ Len(pointers) = 2
    /\ Len(calls) = 1
    /\ BeyondHalfTurn(calls[1].snapshot.rotationRad)

\* The second contact began to the right of the first (anchor angle 0) and has
\* moved to straight below it, the first where it was: the rotation is pi / 2.
C18_QuarterTurnReached ==
    /\ ev.type = "pointermove"
    /\ Len(pointers) = 2
    /\ ev.pointerId = pointers[2].id
    /\ Len(calls) = 1
    /\ gestureStartAngleRad = Some(<<1, 0>>)
    /\ calls[1].snapshot.rotationRad = <<<<0, 1>>, <<1, 0>>>>
    /\ IsQuarterTurn(calls[1].snapshot.rotationRad)

\* C19, as stated: with preventDefault true the default action of every begin,
\* move, end and cancel notification the target receives is suppressed; with
\* preventDefault false that of none.
C19_EveryDefaultPrevented ==
    [][(ev'.type \in EventTypes /\ Handled) =>
        ev'.defaultPrevented = preventDefault]_vars

\* C19, amended: with preventDefault true the default action is suppressed for
\* every contact-begin notification, and for a move, end or cancel notification
\* exactly when its contact is in the registry as the notification arrives (so
\* also for a release, which takes the contact out); with preventDefault false,
\* and once the listeners are removed, it is suppressed for none.
C19_DefaultPreventedIfTracked ==
    [][ev'.type \in EventTypes =>
        ev'.defaultPrevented =
            (/\ preventDefault
             /\ Handled
             /\ (ev'.type = "pointerdown" \/ Tracked))]_vars

\* With preventDefault true, the release of the last contact has had its default
\* action suppressed: the contact was in the registry when it arrived.
C19_Witness ==
    /\ preventDefault
    /\ IsRelease(ev.type)
    /\ ev.defaultPrevented
    /\ pointers = <<>>
    /\ Len(calls) = 1

\* With preventDefault true, a move of a contact that is not in the registry was
\* received and its default action was not suppressed.
C19_StaleMoveNotPrevented ==
    /\ preventDefault
    /\ "pointermove" \in listeners
    /\ ev.type = "pointermove"
    /\ ~ev.defaultPrevented

\* C20: with capturePointers true, a contact-begin whose pointer capture throws
\* is processed as one whose capture succeeds: the contact of a tracked modality
\* is in the registry, the start snapshot is emitted when 1 or 2 contacts are
\* live, and the registry, the session and the handler calls are those
\* onPointerDown leaves when nothing is thrown.
C20_CaptureFailureSwallowed ==
    [][(ev'.type = "pointerdown" /\ Handled /\ ev'.capture = "threw") =>
        LET e == Event("pointerdown", ev'.pointerId, Pt(ev'.clientX, ev'.clientY),
                       ev'.pointerType)
            ok == onPointerDown(Closure, e)
        IN /\ capturePointers
           /\ ev'.pointerType \in TrackedTypes => Has(pointers', ev'.pointerId)
           /\ Len(pointers') \in {1, 2} =>
                Len(calls') = 1 /\ calls'[1].handler = "onStart"
           /\ active'
           /\ pointers' = ok.pointers
           /\ active' = ok.active
           /\ Session' = <<ok.gestureStartCenter, ok.gestureStartDistance,
                           ok.gestureStartAngleRad, ok.lastCenter>>
           /\ translation' = ok.translation
           /\ calls' = ok.calls]_vars

\* The pointer capture of the second contact has just thrown: the contact is
\* live and the start snapshot of the pair was emitted.
C20_Witness ==
    /\ ev.type = "pointerdown"
    /\ ev.capture = "threw"
    /\ Len(pointers) = 2
    /\ ev.pointerId = pointers[2].id
    /\ Len(calls) = 1
    /\ calls[1].snapshot.pointers = 2

\* The registry, the session and the handler calls of the first attachment.
FirstState == <<pointers, active, Session, translation, calls>>

C21_AloneReached ==
    /\ other.to = "first"
    /\ ev.type = "pointerdown"
    /\ Len(calls) = 1
    /\ pointers # <<>>
    /\ other.closure.pointers = <<>>

\* The registry and the session of the attachment.
Gesture == <<pointers, active, Session, translation>>

\* C22: a render of the component that changes the handlers and none of
\* options.preventDefault, options.capturePointers and targetRef leaves the
\* listeners, the registry and the session as they are, whatever gesture is in
\* progress; the attach effect runs again only at a render that changes one of
\* those three; and the handler calls of a notification go to the handlers of
\* the last render, which is what handlersRef.current holds once its effect
\* has run.
C22_HandlersReplacedInPlace ==
    [][/\ (ev'.type = "render" /\ deps(hook') = deps(hook)) =>
            /\ ~hook'.effectRan
            /\ listeners' = listeners
            /\ Gesture' = Gesture
            /\ <<preventDefault, capturePointers>>' = <<preventDefault, capturePointers>>
       /\ (ev'.type = "render" /\ hook'.effectRan) =>
            \/ hook'.options.preventDefault # hook.options.preventDefault
            \/ hook'.options.capturePointers # hook.options.capturePointers
            \/ hook'.targetRef # hook.targetRef
       /\ (ev'.type \in EventTypes /\ calls' # <<>>) =>
            /\ hook' = hook
            /\ receiver(hook) = hook.handlers]_vars

\* The handlers have just been replaced while a contact was live and off its
\* anchor: the listeners, the contact and the translation are still there, and
\* handlersRef.current holds the new handlers.
C22_Witness ==
    /\ ev.type = "render"
    /\ hook.replaced
    /\ ~hook.effectRan
    /\ listeners = EventTypes
    /\ Len(pointers) = 1
    /\ active
    /\ translation # Origin
    /\ receiver(hook) = hook.handlers

\* C23: while the component is mounted with a targetRef whose current is null,
\* nothing is attached: the target has no listener, attachPinchPanGesture has
\* not thrown, registry and session are empty; and the cleanup that follows, at
\* the next run of the effect or at unmount, changes nothing of them and calls
\* no handler.
C23_MissingTargetIsNoOp ==
    [][/\ (hook.mounted /\ ~current(hook.targetRef)) =>
            /\ listeners = {}
            /\ ~hook.error
            /\ pointers = <<>>
            /\ ~active
            /\ SessionIsReset
            /\ calls = <<>>
       /\ (hook.mounted /\ ~current(hook.targetRef) /\ ev'.type \in EventTypes) =>
            /\ Gesture' = Gesture
            /\ calls' = <<>>
       /\ (hook.mounted /\ ~current(hook.targetRef) /\ ev'.type = "unmount") =>
            /\ listeners' = {}
            /\ Gesture' = Gesture
            /\ calls' = <<>>
            /\ detachCalls' = detachCalls
            /\ ~hook'.error
       /\ (hook.mounted /\ ~current(hook.targetRef) /\ ev'.type = "render"
               /\ ~current(hook'.targetRef)) =>
            /\ listeners' = {}
            /\ Gesture' = Gesture
            /\ calls' = <<>>
            /\ ~hook'.error]_vars

\* A contact began on the target of a component whose targetRef has no element:
\* nothing was listening.
C23_Witness ==
    /\ hook.mounted
    /\ ~current(hook.targetRef)
    /\ hook.effectRan
    /\ ev.type = "pointerdown"
    /\ ev.pointerType = "touch"
    /\ listeners = {}
    /\ calls = <<>>
    /\ pointers = <<>>

\* C24: between notifications the recognizer is active exactly when a contact
\* is live in the registry; and with an empty registry every field of the
\* session is reset.
C24_ActiveIffLive ==
    /\ active <=> Len(pointers) >= 1
    /\ pointers = <<>> => SessionIsReset

\* C25: an end or cancel of a live contact that leaves three or more live calls
\* the end/cancel handler once and no other: the snapshot counts 2 contacts and
\* has the geometry of the first two that remain, no start follows, and the
\* anchors stay as they were, whichever contact was released.
C25_ReleaseInCrowd ==
    [][(IsRelease(ev'.type) /\ Handled /\ Tracked /\ Len(pointers') >= 3) =>
        /\ Len(calls') = 1
        /\ calls'[1].handler = HandlerOf(PhaseOf(ev'.type))
        /\ calls'[1].snapshot.phase = PhaseOf(ev'.type)
        /\ calls'[1].snapshot.pointers = 2
        /\ IsCenterOf(calls'[1].snapshot.center, pointers')
        /\ calls'[1].snapshot.pinchDistance = Some(PairDistance(pointers'))
        /\ Anchors' = Anchors
        /\ translation' = calls'[1].snapshot.translation
        /\ active']_vars

\* The first of four live contacts has just been released: the pair the
\* geometry is measured on has changed and is at another distance than the
\* anchor, which is still that of the pair before.
C25_Witness ==
    /\ IsRelease(ev.type)
    /\ Len(pointers) = 3
    /\ Len(calls) = 1
    /\ ~Has(pointers, ev.pointerId)
    /\ gestureStartDistance # Null
    /\ gestureStartDistance # calls[1].snapshot.pinchDistance
    /\ gestureStartCenter # Some(calls[1].snapshot.center)

\* The sum of the deltas of the epoch up to and including call i of the step.
EpochSum(i) == sumOfDeltas(epochDelta, SubSeq(calls', 1, i))

\* C26: the translation of every snapshot is the sum of the deltas of the
\* snapshots emitted since the last start snapshot, that one and itself
\* included; so it is for the end or cancel snapshot that closes the epoch, and
\* after moves that emitted nothing because more than two contacts were live.
C26_TranslationSumsDeltas ==
    [][\A i \in 1..Len(calls') :
        calls'[i].snapshot.translation = EpochSum(i)]_vars

\* One of three live contacts has just been released, the center having changed
\* since the last snapshot: the end snapshot has a delta, and a translation that
\* is that delta added to the deltas before it in the epoch.
C26_Witness ==
    /\ IsRelease(ev.type)
    /\ Len(pointers) = 2
    /\ Len(calls) = 2
    /\ calls[1].snapshot.delta # Origin
    /\ calls[1].snapshot.translation # calls[1].snapshot.delta
    /\ calls[1].snapshot.translation # Origin

\* C27: whenever a contact is live between notifications the anchor center and
\* the last-emitted center are set.  So the release of the last contact finds a
\* last-emitted center and never takes the position of the event for its
\* snapshot, and no emission finds one of the two centers unset.
C27_CentersSetWhileLive ==
    [][/\ pointers # <<>> => (gestureStartCenter # Null /\ lastCenter # Null)
       /\ pointers' # <<>> => (gestureStartCenter' # Null /\ lastCenter' # Null)
       /\ (IsRelease(ev'.type) /\ Handled /\ Tracked /\ pointers' = <<>>) =>
            /\ lastCenter # Null
            /\ calls'[1].snapshot.center = lastCenter[1]
       /\ \A i \in 1..Len(calls') : ~calls'[i].lazyCenter]_vars

\* The last contact has just been released at a point that is not the
\* last-emitted center: its snapshot has the last-emitted center.
C27_Witness ==
    /\ IsRelease(ev.type)
    /\ pointers = <<>>
    /\ Len(calls) = 1
    /\ ~calls[1].lazyCenter
    /\ calls[1].snapshot.center # Pt(ev.clientX, ev.clientY)

\* The other of the two release notifications.
OtherRelease(type) == IF type = "pointerup" THEN "pointercancel" ELSE "pointerup"

\* The closure s with its first handler call, if it is the one of phase from,
\* made the one of phase to.
Rephased(s, from, to) ==
    [s EXCEPT !.calls =
        [i \in 1..Len(@) |->
            IF i = 1 /\ @[i].handler = HandlerOf(from) /\ @[i].snapshot.phase = from
            THEN [@[i] EXCEPT !.handler = HandlerOf(to), !.snapshot.phase = to]
            ELSE @[i]]]

\* C28: what an end or cancel notification of a contact leaves is what the
\* other of the two would have left in the same state: the same registry, the
\* same session and the same handler calls with the same snapshots, but for
\* the first call, which is to onEnd with phase end for the one and to onCancel
\* with phase cancel for the other.
C28_CancelLikeEnd ==
    [][(IsRelease(ev'.type) /\ Handled) =>
        LET e == Event(OtherRelease(ev'.type), ev'.pointerId,
                       Pt(ev'.clientX, ev'.clientY), "-")
        IN /\ FirstClosure' =
                  Rephased(endLike(PhaseOf(e.type), Closure, e),
                           PhaseOf(e.type), PhaseOf(ev'.type))
           /\ calls' # <<>> =>
                /\ calls'[1].snapshot.phase = PhaseOf(ev'.type)
                /\ calls'[1].handler = HandlerOf(PhaseOf(ev'.type))]_vars

\* One of three live contacts has just been cancelled: onCancel was called,
\* then onStart for the two that remain.
C28_Witness ==
    /\ ev.type = "pointercancel"
    /\ Len(pointers) = 2
    /\ Len(calls) = 2
    /\ calls[1].handler = "onCancel"
    /\ calls[1].snapshot.phase = "cancel"
    /\ calls[2].handler = "onStart"

\* C29: the teardown called while contacts are live calls no handler: the
\* registry is emptied and the session reset, with no end or cancel snapshot for
\* the gesture in progress; and nothing is emitted for those contacts later.
C29_DetachDropsGesture ==
    [][/\ (ev'.type = "detach" /\ pointers # <<>>) =>
            /\ calls' = <<>>
            /\ pointers' = <<>>
            /\ ~active'
            /\ SessionIsReset'
            /\ listeners' = {}
       /\ (detachCalls > 0 /\ ev'.pointerId \in hook.dropped) => calls' = <<>>]_vars

\* The teardown has just been called with two contacts live, off their anchor.
C29_Witness ==
    /\ ev.type = "detach"
    /\ hook.dropped = {1, 2}
    /\ detachCalls = 1
    /\ calls = <<>>
    /\ pointers = <<>>
    /\ ~active

\* C30: in the component, a render that changes options.preventDefault or
\* options.capturePointers while contacts are live (the target still present)
\* runs the cleanup and attaches again: the listeners are back, the registry is
\* empty and the session reset, and no handler is called, so the gesture in
\* progress gets no end or cancel snapshot.  A later move, end or cancel of a
\* contact dropped that way, not pressed again since, changes nothing and calls
\* no handler.
C30_OptionChangeDropsGesture ==
    [][/\ ( /\ ev'.type = "render"
            /\ pointers # <<>>
            /\ \/ hook'.options.preventDefault # hook.options.preventDefault
               \/ hook'.options.capturePointers # hook.options.capturePointers
            /\ current(hook'.targetRef) ) =>
            /\ hook'.effectRan
            /\ listeners' = EventTypes
            /\ preventDefault' = defaulted(hook'.options.preventDefault)
            /\ capturePointers' = defaulted(hook'.options.capturePointers)
            /\ pointers' = <<>>
            /\ ~active'
            /\ SessionIsReset'
            /\ calls' = <<>>
       /\ ( /\ ev'.type \in {"pointermove", "pointerup", "pointercancel"}
            /\ hook.mounted
            /\ ev'.pointerId \in hook.dropped \ LiveIds ) =>
            /\ calls' = <<>>
            /\ Gesture' = Gesture
            /\ ~ev'.defaultPrevented]_vars

\* A contact that was live when the options changed moves after the second
\* attachment: the listeners are attached, the registry is empty, no handler ran.
C30_Witness ==
    /\ ev.type = "pointermove"
    /\ hook.mounted
    /\ hook.effectRan
    /\ hook.targetRef = "refElement"
    /\ hook.dropped = {1, 2}
    /\ ev.pointerId \in hook.dropped
    /\ listeners = EventTypes
    /\ pointers = <<>>
    /\ ~active
    /\ calls = <<>>

\* The games that were constructed and not destroyed.
Undestroyed == {g \in 1..Len(phaserGame.games) : ~phaserGame.games[g].destroyed}

\* C31: in the PhaserGame component, whatever the order of effect runs,
\* cleanups and import completions: at most one undestroyed game exists at any
\* time (the one in gameRef); the import of a run that was already cleaned up
\* completes without constructing a game; and once the component is unmounted
\* no game is left undestroyed and no window listener of a game is left.
C31_OneGameAndNoneAfterUnmount ==
    /\ [](Cardinality(Undestroyed) <= 1 /\ Undestroyed \subseteq {phaserGame.gameRef})
    /\ [][\A i \in 1..Len(phaserGame.runs) :
            ( /\ phaserGame.runs[i].cancelled
              /\ phaserGame.runs[i].at = "importing"
              /\ phaserGame'.runs[i].at # "importing" ) =>
                /\ phaserGame'.games = phaserGame.games
                /\ phaserGame'.gameRef = phaserGame.gameRef
                /\ phaserGame'.windowListeners = phaserGame.windowListeners]_vars
    /\ []((phaserGame.runs # <<>> /\ ~phaserGame.mounted) =>
            /\ Undestroyed = {}
            /\ phaserGame.gameRef = 0
            /\ phaserGame.windowListeners = {})

\* After the unmount: a game was constructed and destroyed, its listeners are
\* gone, and the import of a run cleaned up earlier has completed since without
\* constructing a game.
C31_Witness ==
    /\ ~phaserGame.mounted
    /\ Len(phaserGame.games) >= 1
    /\ Undestroyed = {}
    /\ phaserGame.windowListeners = {}
    /\ \E i \in 1..Len(phaserGame.runs) : phaserGame.runs[i].at = "cancelled"
    /\ \E i \in 1..Len(phaserGame.runs) : phaserGame.runs[i].at = "created"
====
